---- MODULE Spec2Model ----
(***************************************************************************)
(* AvatarPlayer (src/unnamed/part_000): a React component that fetches a   *)
(* manifest, preloads every frame through a bounded pool of fetch workers, *)
(* prepares an audio track and then draws frames from a requestAnimation-  *)
(* Frame loop driven by the wall clock.                                    *)
(*                                                                         *)
(* One effect run of the component ("session") is one call of setup() and  *)
(* the cleanup closure returned beside it.  The refs (manifestRef,         *)
(* framesRef, audioRef, rafRef, startTimeRef, currentFrameRef) belong to   *)
(* the component and are shared by all its sessions; isMounted and the     *)
(* locals of loadFrames belong to one session.                             *)
(*                                                                         *)
(* JavaScript runs one task at a time: every action below is one task      *)
(* (an event callback or the continuation of an await) together with the   *)
(* promise continuations it triggers synchronously.                        *)
(***************************************************************************)
EXTENDS Integers, Sequences, FiniteSets, TLC

----------------------------------------------------------------------------
(* Program constants *)

MAX_CONCURRENT_REQUESTS == 8
DefaultFps == 25
MsPerSecond == 1000
DefaultWidth == 1280
AspectW == 16
AspectH == 9
\* the value of x % 0 in tick; any integer that is no array index and not -1
NaN == -7

(* Bounds of the model *)

MaxSessions == 2       \* effect runs of one component instance
MaxClicks == 1         \* clicks on the start button
MaxTime == 200         \* the clock stops this long after the start (ms)
Quantum == 100         \* granularity of the clock (ms)
MaxLoadFrames == 9     \* frame count of the manifests of SpecLoad
MaxZipFrames == 3      \* frame count of the manifests of SpecZip
MaxZipNames == 3       \* distinct file names of SpecZip

Sessions == 1..MaxSessions

Min(a, b) == IF a < b THEN a ELSE b

----------------------------------------------------------------------------
(* Data *)

\* Manifest.zip: url is "" when the manifest has no zip; entries are the
\* names of the entries of the archive that URL answers with, in their
\* physical order
NoZip == [url |-> "", entries |-> <<>>]

NoManifest == [id |-> 0, basePath |-> "", frames |-> <<>>, fps |-> 0, width |-> 0, height |-> 0,
               zip |-> NoZip]

\* The manifests the manifest URL may answer with in Spec: a two frame clip at
\* 10 fps, and a one frame clip without fps.
Manifests ==
  { [id |-> 1, basePath |-> "", frames |-> <<1, 2>>, fps |-> 10, width |-> 640,
     height |-> 0, zip |-> NoZip],
    [id |-> 2, basePath |-> "/cdn/", frames |-> <<2>>, fps |-> 0, width |-> 0,
     height |-> 0, zip |-> NoZip] }

\* The manifests of SpecLoad: n distinct frame names, n up to MaxLoadFrames.
LoadManifests ==
  { [id |-> 1, basePath |-> "", frames |-> [i \in 1..n |-> i], fps |-> 0,
     width |-> 0, height |-> 0, zip |-> NoZip] : n \in 0..MaxLoadFrames }

\* the sequences over S of length up to n
SeqsUpTo(S, n) == UNION {[1..k -> S] : k \in 0..n}

\* The manifests of SpecZip: any frame names, with repetitions, and an archive
\* of distinctly named entries in any order, some of them not frames, some
\* frames missing.
ZipManifests ==
  { [id |-> 1, basePath |-> "", frames |-> f, fps |-> 0, width |-> 0, height |-> 0,
     zip |-> [url |-> "frames.zip", entries |-> e]] :
      f \in SeqsUpTo(1..MaxZipNames, MaxZipFrames),
      e \in {q \in SeqsUpTo(1..MaxZipNames, MaxZipNames) :
               \A j, k \in DOMAIN q : j # k => q[j] # q[k]} }

manifestUrl == "/manifest.json"

\* const base = basePath.length > 0 ? new URL(basePath, origin).href : ...
Base(m) == IF m.basePath # "" THEN m.basePath ELSE manifestUrl

\* new URL(fname, base).href
Href(fname, base) == <<base, fname>>

\* const queue = frames.map((fname) => new URL(fname, base).href)
Queue(m) == [k \in 1..Len(m.frames) |-> Href(m.frames[k], Base(m))]

\* a slot of new Array(n) that was never written
Hole == [sess |-> 0, req |-> -1, src |-> <<"", 0>>, rel |-> FALSE]

\* An Audio element: rs is how far its loading got ("none": not constructed),
\* paused and ended are its attributes of these names.
NoAudio == [rs |-> "none", paused |-> TRUE, ended |-> FALSE]
\* new Audio(audioUrl) followed by audio.load()
NewAudio == [rs |-> "loading", paused |-> TRUE, ended |-> FALSE]

\* arrays are sequences; At reads the JavaScript index i (0-based)
At(arr, i) == IF i >= 0 /\ i < Len(arr) THEN arr[i + 1] ELSE Hole

----------------------------------------------------------------------------
(* State *)

VARIABLES
  \* props and platform, fixed for the life of the component
  loop,            \* prop loop
  fpsProp,         \* prop fps, 0 when omitted
  bitmapApi,       \* "createImageBitmap" in window
  canvasWidth,     \* prop canvasWidth, 0 when omitted
  \* refs and React state of the component
  manifestRef,     \* NoManifest when null
  framesRef,       \* the decoded frames, a sequence
  audioRef,        \* 0 when null, else the session whose setup built the Audio
  rafRef,          \* 0 when null, else a requestAnimationFrame handle
  currentFrameRef,
  started,
  isReady,
  canvas,          \* <<width, height>> given to the canvas; <<>>: never sized
  \* one effect run (session) s
  isMounted,       \* the closure variable of the effect
  pc,              \* where setup() of s is suspended
  manifest,        \* const manifest of setup()
  index,           \* let index of loadFrames
  results,         \* const results of loadFrames
  worker,          \* the worker() calls of loadFrames
  playOn,          \* the Audio whose play() promise setup() awaits
  \* environment
  elapsed,         \* performance.now() - startTimeRef.current (ms)
  pending,         \* the animation frame callbacks requested and not yet run
  audio,           \* state of the Audio element built by session s
  hsWait,          \* handleStart calls suspended at await play(), by Audio
  clicks,          \* clicks on the start button so far
  \* history, read by the properties only
  ev,              \* what the last task did
  issued,          \* per queue entry of session s, the fetches issued for it
  closedOnce,      \* frames on which close() was called
  closedTwice,     \* frames on which close() was called again
  onReadyCount,
  onErrorCount,
  onEndCount,
  lastDraw         \* <<i>>: the last index passed to drawFrame; <<>>: none yet

vars ==
  << loop, fpsProp, bitmapApi, canvasWidth, canvas, manifestRef, framesRef, audioRef, rafRef,
     currentFrameRef, started, isReady, isMounted, pc, manifest,
     index, results, worker, issued, playOn, elapsed, pending, audio, hsWait, clicks, ev,
     closedOnce, closedTwice, onReadyCount, onErrorCount, onEndCount, lastDraw >>

propsV == <<loop, fpsProp, bitmapApi, canvasWidth>>
loadV == <<index, results, worker, issued>>
clockV == <<elapsed, pending, rafRef, currentFrameRef>>
uiV == <<started, isReady, hsWait, clicks>>
closeV == <<closedOnce, closedTwice>>

\* the record of one task: which operation, of which session (0: the
\* component), the indices it passed to drawFrame, whether it requested an
\* animation frame, whether it called play() on an Audio
Ev(op, s, draws, sched, play) ==
  [op |-> op, sess |-> s, draws |-> draws, sched |-> sched, play |-> play]

InitWith(loops, fpss, apis, widths) ==
  /\ loop \in loops
  /\ fpsProp \in fpss
  /\ bitmapApi \in apis
  /\ canvasWidth \in widths
  /\ canvas = <<>>
  /\ manifestRef = NoManifest
  /\ framesRef = <<>>
  /\ audioRef = 0
  /\ rafRef = 0
  /\ currentFrameRef = 0
  /\ started = FALSE
  /\ isReady = FALSE
  /\ isMounted = [s \in Sessions |-> FALSE]
  /\ pc = [s \in Sessions |-> "idle"]
  /\ manifest = [s \in Sessions |-> NoManifest]
  /\ index = [s \in Sessions |-> 0]
  /\ results = [s \in Sessions |-> <<>>]
  /\ worker = [s \in Sessions |-> <<>>]
  /\ issued = [s \in Sessions |-> <<>>]
  /\ playOn = [s \in Sessions |-> 0]
  /\ elapsed = 0
  /\ pending = <<>>
  /\ audio = [s \in Sessions |-> NoAudio]
  /\ hsWait = <<>>
  /\ clicks = 0
  /\ ev = Ev("init", 0, <<>>, FALSE, FALSE)
  /\ closedOnce = {}
  /\ closedTwice = {}
  /\ onReadyCount = [s \in Sessions |-> 0]
  /\ onErrorCount = [s \in Sessions |-> 0]
  /\ onEndCount = 0
  /\ lastDraw = <<>>

Init == InitWith(BOOLEAN, {0}, BOOLEAN, {0})

----------------------------------------------------------------------------
(* setup(): manifest and frames *)

\* useEffect runs: let isMounted = true; setup() runs to its first await,
\* the fetch of the manifest.  React runs the effect of session s only after
\* the cleanup of session s-1.
Mount(s) ==
  /\ pc[s] = "idle"
  /\ \A t \in Sessions : t < s => pc[t] # "idle" /\ ~isMounted[t]
  /\ isMounted' = [isMounted EXCEPT ![s] = TRUE]
  /\ pc' = [pc EXCEPT ![s] = "manifest"]
  /\ ev' = Ev("mount", s, <<>>, FALSE, FALSE)
  /\ UNCHANGED << propsV, canvas, manifestRef, framesRef, audioRef, clockV, uiV,
                  manifest, loadV, playOn, audio, closeV, onReadyCount,
                  onErrorCount, onEndCount, lastDraw >>

\* catch (err) { if (isMounted) onError ? onError(err) : console.error(err) }
Catch(s) ==
  /\ pc' = [pc EXCEPT ![s] = "failed"]
  /\ onErrorCount' =
       IF isMounted[s] THEN [onErrorCount EXCEPT ![s] = @ + 1] ELSE onErrorCount

\* createBitmap: an ImageBitmap (it has close()) where the platform has
\* createImageBitmap, an HTMLImageElement otherwise.  The image is the one
\* decoded from the response to request i of session s, for URL url.
createBitmap(s, i, url) == [sess |-> s, req |-> i, src |-> url, rel |-> bitmapApi]

\* setup() from the resolution of loadFrames to its next await:
\* framesRef.current = <bitmaps>; if (!isMounted) return; new Audio(...);
\* then the wait for canplaythrough.
SetupAfterFrames(s, bitmaps) ==
  /\ framesRef' = bitmaps
  /\ IF isMounted[s]
       THEN /\ audioRef' = s
            /\ audio' = [audio EXCEPT ![s] = NewAudio]
            /\ pc' = [pc EXCEPT ![s] = "audioWait"]
       ELSE /\ pc' = [pc EXCEPT ![s] = "aborted"]
            /\ UNCHANGED <<audioRef, audio>>

\* (mutant) one worker per frame, no throttling
PoolSizeUnbounded(n) == n

\* the number of worker() calls: Math.min(MAX_CONCURRENT_REQUESTS, queue.length)
PoolSize(n) == Min(MAX_CONCURRENT_REQUESTS, n)

\* the workers a load of the model can have
Workers == 1..PoolSize(MaxLoadFrames)

\* worker k, called by Array.from, runs to its first await: it claims
\* index k-1 (i = index++) and issues the fetch of queue[i]
SpawnWorkers(n) == [k \in 1..PoolSize(n) |-> [st |-> "fetching", i |-> k - 1]]

\* const width = canvasWidth || manifest.width || 1280
EffectiveWidth(m) ==
  IF canvasWidth # 0 THEN canvasWidth ELSE IF m.width # 0 THEN m.width ELSE DefaultWidth

\* const height = manifest.height || (width * 9) / 16, as the canvas keeps it
\* (a whole number of pixels)
EffectiveHeight(m) ==
  IF m.height # 0 THEN m.height ELSE (EffectiveWidth(m) * AspectH) \div AspectW

\* canvasRef.current is not null: the <canvas> is rendered only when started
CanvasMounted == started

\* The manifest fetch resolves with document m: setup() continues through the
\* canvas sizing into loadFrames, which fetches the zip if the manifest names
\* one and starts its workers otherwise.
ManifestArrives(s, m) ==
  /\ pc[s] = "manifest"
  /\ ev' = Ev("manifest", s, <<>>, FALSE, FALSE)
  /\ IF ~isMounted[s]
       THEN /\ pc' = [pc EXCEPT ![s] = "aborted"]
            /\ UNCHANGED << manifestRef, manifest, loadV, framesRef, audioRef,
                            audio, canvas >>
       ELSE /\ manifestRef' = m
            /\ manifest' = [manifest EXCEPT ![s] = m]
            /\ canvas' = IF CanvasMounted THEN <<EffectiveWidth(m), EffectiveHeight(m)>>
                                          ELSE canvas
            /\ IF m.zip.url # ""
                 THEN \* if (zip): await fetch(zipUrl)
                      /\ pc' = [pc EXCEPT ![s] = "zip"]
                      /\ UNCHANGED <<loadV, framesRef, audioRef, audio>>
                 ELSE /\ results' = [results EXCEPT ![s] = [k \in 1..Len(m.frames) |-> Hole]]
                      /\ worker' = [worker EXCEPT ![s] = SpawnWorkers(Len(m.frames))]
                      /\ index' = [index EXCEPT ![s] = PoolSize(Len(m.frames))]
                      /\ issued' = [issued EXCEPT ![s] =
                           [k \in 1..Len(m.frames) |->
                              Cardinality({w \in 1..PoolSize(Len(m.frames)) :
                                             SpawnWorkers(Len(m.frames))[w].i = k - 1})]]
                      /\ IF Len(m.frames) = 0
                           THEN SetupAfterFrames(s, <<>>)  \* Promise.all([]) resolves
                           ELSE /\ pc' = [pc EXCEPT ![s] = "frames"]
                                /\ UNCHANGED <<framesRef, audioRef, audio>>
  /\ UNCHANGED << propsV, clockV, uiV, isMounted, playOn, closeV, onReadyCount,
                  onErrorCount, onEndCount, lastDraw >>

\* The manifest fetch rejects, or the document does not parse.
ManifestFails(s) ==
  /\ pc[s] = "manifest"
  /\ Catch(s)
  /\ ev' = Ev("manifestFails", s, <<>>, FALSE, FALSE)
  /\ UNCHANGED << propsV, canvas, manifestRef, framesRef, audioRef, clockV, uiV,
                  isMounted, manifest, loadV, playOn, audio, closeV,
                  onReadyCount, onEndCount, lastDraw >>

\* (mutant) the bitmap is appended in arrival order: results.push(bmp)
StoreResultByArrival(res, i, bmp) ==
  LET k == CHOOSE j \in DOMAIN res : res[j] = Hole /\ \A g \in 1..(j - 1) : res[g] # Hole
  IN [res EXCEPT ![k] = bmp]

\* results[i] = bmp
StoreResult(res, i, bmp) == [res EXCEPT ![i + 1] = bmp]

\* (mutant) the index is read but not advanced before the await: the worker
\* fetches again the index it has just stored
NextClaimRepeats(s, w) ==
  IF index[s] < Len(Queue(manifest[s]))
    THEN [st |-> "fetching", i |-> worker[s][w].i]
    ELSE [st |-> "returned", i |-> worker[s][w].i]

\* worker w of session s after its await: the next turn of
\* while (index < queue.length) { const i = index++; ... }
NextClaim(s, w) ==
  IF index[s] < Len(Queue(manifest[s]))
    THEN [st |-> "fetching", i |-> index[s]]
    ELSE [st |-> "returned", i |-> worker[s][w].i]

\* The fetch of worker w resolves and its body decodes: the worker stores the
\* bitmap and claims again; when this was the last worker to return,
\* Promise.all resolves and setup() continues.
FetchDone(s, w) ==
  /\ w \in DOMAIN worker[s]
  /\ worker[s][w].st = "fetching"
  /\ LET i == worker[s][w].i
         res == StoreResult(results[s], i, createBitmap(s, i, Queue(manifest[s])[i + 1]))
         wk == [worker[s] EXCEPT ![w] = NextClaim(s, w)]
     IN /\ results' = [results EXCEPT ![s] = res]
        /\ worker' = [worker EXCEPT ![s] = wk]
        /\ index' = [index EXCEPT ![s] = IF wk[w].st = "fetching" THEN @ + 1 ELSE @]
        /\ issued' = IF wk[w].st = "fetching"
                       THEN [issued EXCEPT ![s][wk[w].i + 1] = @ + 1]
                       ELSE issued
        /\ IF pc[s] = "frames" /\ \A v \in DOMAIN wk : wk[v].st = "returned"
             THEN SetupAfterFrames(s, res)
             ELSE UNCHANGED <<framesRef, audioRef, audio, pc>>
  /\ ev' = Ev("fetchDone", s, <<>>, FALSE, FALSE)
  /\ UNCHANGED << propsV, canvas, manifestRef, clockV, uiV, isMounted, manifest, playOn,
                  closeV, onReadyCount, onErrorCount, onEndCount, lastDraw >>

\* (mutant) a failed frame is skipped: loadFrames resolves with the frames
\* decoded so far
FetchFailsKeepsPartial(s, w) ==
  /\ w \in DOMAIN worker[s]
  /\ worker[s][w].st = "fetching"
  /\ worker' = [worker EXCEPT ![s][w] = [st |-> "rejected", i |-> @.i]]
  /\ IF pc[s] = "frames"
       THEN SetupAfterFrames(s, results[s])
       ELSE UNCHANGED <<pc, framesRef, audioRef, audio>>
  /\ ev' = Ev("fetchFails", s, <<>>, FALSE, FALSE)
  /\ UNCHANGED << propsV, canvas, manifestRef, clockV, uiV, isMounted, manifest, index,
                  results, issued, playOn, closeV, onReadyCount, onErrorCount,
                  onEndCount, lastDraw >>

\* The fetch of worker w rejects, or its body does not decode: worker w
\* rejects, and so does Promise.all unless it is settled already; the other
\* workers go on.
FetchFails(s, w) ==
  /\ w \in DOMAIN worker[s]
  /\ worker[s][w].st = "fetching"
  /\ worker' = [worker EXCEPT ![s][w] = [st |-> "rejected", i |-> @.i]]
  /\ IF pc[s] = "frames" THEN Catch(s) ELSE UNCHANGED <<pc, onErrorCount>>
  /\ ev' = Ev("fetchFails", s, <<>>, FALSE, FALSE)
  /\ UNCHANGED << propsV, canvas, manifestRef, framesRef, audioRef, clockV, uiV,
                  isMounted, manifest, index, results, issued, playOn, audio,
                  closeV,
                  onReadyCount, onEndCount, lastDraw >>

----------------------------------------------------------------------------
(* loadFrames, zip branch *)

\* (mutant) the frames are taken in the order of the archive's entries
OrderedNamesPhysical(m) == m.zip.entries

\* const orderedNames = frames; // keep manifest order
OrderedNames(m) == m.frames

\* jszip.file(name): the position of the entry of that name, 0 when the
\* archive has none (null)
ZipFile(entries, name) ==
  IF \E k \in DOMAIN entries : entries[k] = name
    THEN CHOOSE k \in DOMAIN entries : entries[k] = name
    ELSE 0

\* The for loop of the zip branch from its iteration pos (0-based), with the
\* bitmaps pushed so far, up to its next await: return bitmaps after the last
\* name, throw for a name the archive lacks, else await file.async("blob").
ZipContinue(s, bitmaps, pos) ==
  LET names == OrderedNames(manifest[s])
  IN /\ results' = [results EXCEPT ![s] = bitmaps]
     /\ index' = [index EXCEPT ![s] = pos]
     /\ IF pos >= Len(names)
          THEN SetupAfterFrames(s, bitmaps) /\ UNCHANGED onErrorCount
          ELSE IF ZipFile(manifest[s].zip.entries, names[pos + 1]) = 0
                 THEN Catch(s) /\ UNCHANGED <<framesRef, audioRef, audio>>
                 ELSE /\ pc' = [pc EXCEPT ![s] = "zipEntry"]
                      /\ UNCHANGED <<framesRef, audioRef, audio, onErrorCount>>

\* The zip is fetched, read as a blob and opened by JSZip.loadAsync.
ZipOpens(s) ==
  /\ pc[s] = "zip"
  /\ ZipContinue(s, <<>>, 0)
  /\ ev' = Ev("zipOpens", s, <<>>, FALSE, FALSE)
  /\ UNCHANGED << propsV, canvas, manifestRef, clockV, uiV, isMounted, manifest, worker,
                  issued,
                  playOn, closeV, onReadyCount, onEndCount, lastDraw >>

\* The fetch of the zip rejects, or the response is no zip archive.
ZipFails(s) ==
  /\ pc[s] = "zip"
  /\ Catch(s)
  /\ ev' = Ev("zipFails", s, <<>>, FALSE, FALSE)
  /\ UNCHANGED << propsV, canvas, manifestRef, framesRef, audioRef, clockV, uiV,
                  isMounted, manifest, loadV, playOn, audio, closeV,
                  onReadyCount, onEndCount, lastDraw >>

\* The entry of the current name is read and decoded: bitmaps.push(bmp), and
\* the loop goes on.
ZipEntryDecoded(s) ==
  /\ pc[s] = "zipEntry"
  /\ LET m == manifest[s]
         i == index[s]
         k == ZipFile(m.zip.entries, OrderedNames(m)[i + 1])
     IN ZipContinue(s, Append(results[s], createBitmap(s, i, <<m.zip.url, k>>)), i + 1)
  /\ ev' = Ev("zipEntryDecoded", s, <<>>, FALSE, FALSE)
  /\ UNCHANGED << propsV, canvas, manifestRef, clockV, uiV, isMounted, manifest, worker,
                  issued,
                  playOn, closeV, onReadyCount, onEndCount, lastDraw >>

\* The entry of the current name cannot be read or decoded.
ZipEntryFails(s) ==
  /\ pc[s] = "zipEntry"
  /\ Catch(s)
  /\ ev' = Ev("zipEntryFails", s, <<>>, FALSE, FALSE)
  /\ UNCHANGED << propsV, canvas, manifestRef, framesRef, audioRef, clockV, uiV,
                  isMounted, manifest, loadV, playOn, audio, closeV,
                  onReadyCount, onEndCount, lastDraw >>

----------------------------------------------------------------------------
(* Audio, animation frames, clock *)

Range(q) == {q[k] : k \in DOMAIN q}

Remove(q, h) == SelectSeq(q, LAMBDA x : x # h)

RemoveAt(q, k) == [j \in 1..(Len(q) - 1) |-> IF j < k THEN q[j] ELSE q[j + 1]]

\* The handle requestAnimationFrame returns: one that names no pending
\* callback and differs from the one rafRef holds (handles are never
\* compared once they are neither pending nor stored, so the least free
\* number stands for the browser's ever growing ones).
FreshHandle(pend, raf) ==
  CHOOSE h \in 1..(Len(pend) + 2) :
    /\ h \notin Range(pend) /\ h # raf
    /\ \A g \in 1..(h - 1) : g \in Range(pend) \/ g = raf

\* cancelAnimationFrame(rafRef.current), when rafRef.current is not null
CancelRaf(pend, raf) == IF raf # 0 THEN Remove(pend, raf) ELSE pend

\* audio.play() where the browser allows it: the element is no longer paused
\* (and an element that had ended starts over)
PlayCall(aud, a) == [aud EXCEPT ![a].paused = FALSE, ![a].ended = FALSE]

\* audioRef.current.currentTime = 0: the element is at its start, not its end
Rewind(aud, a) == [aud EXCEPT ![a].ended = FALSE]

\* The play() promises pending on Audio a are rejected (pause() was called on
\* it: AbortError; it failed to load: NotSupportedError).
AbortSetupPlays(a) ==
  [t \in Sessions |-> IF pc[t] = "playWait" /\ playOn[t] = a THEN "playRejected" ELSE pc[t]]

AbortStartPlays(a) ==
  [k \in DOMAIN hsWait |->
     IF hsWait[k].a = a THEN [a |-> a, st |-> "rejected"] ELSE hsWait[k]]

\* floor(elapsed * fps) of tick, where elapsed is ms / 1000
FrameIdx(ms, fps) == (ms * fps) \div MsPerSecond

\* const fps = fpsProp || manifest.fps || 25
EffectiveFps(m) ==
  IF fpsProp # 0 THEN fpsProp ELSE IF m.fps # 0 THEN m.fps ELSE DefaultFps

\* The clock advances.  The program reads performance.now() only in tick, and
\* only as its distance from startTimeRef.current, which it sets to
\* performance.now() whenever it requests its first animation frame: the state
\* holds that distance, and time that passes while no callback is pending is
\* not observable.
Advance ==
  /\ pending # <<>>
  /\ elapsed + Quantum <= MaxTime
  /\ elapsed' = elapsed + Quantum
  /\ ev' = Ev("advance", 0, <<>>, FALSE, FALSE)
  /\ UNCHANGED << propsV, canvas, manifestRef, framesRef, audioRef, rafRef, pending,
                  currentFrameRef, uiV, isMounted, pc, manifest,
                  loadV, playOn, audio, closeV, onReadyCount, onErrorCount,
                  onEndCount, lastDraw >>

\* (mutant) play() is not awaited: setup() goes on to step 5 in the task that
\* called play()
CanPlayThroughNoAwait(s, allowed) ==
  /\ pc[s] = "audioWait"
  /\ audio[s].rs = "loading"
  /\ allowed
  /\ audio' = PlayCall([audio EXCEPT ![s].rs = "ready"], audioRef)
  /\ playOn' = [playOn EXCEPT ![s] = audioRef]
  /\ LET h == FreshHandle(pending, rafRef)
     IN /\ elapsed' = 0
        /\ lastDraw' = <<0>>
        /\ pending' = Append(pending, h)
        /\ rafRef' = h
  /\ isReady' = TRUE
  /\ onReadyCount' = [onReadyCount EXCEPT ![s] = @ + 1]
  /\ pc' = [pc EXCEPT ![s] = "ready"]
  /\ ev' = Ev("canplaythrough", s, <<0>>, TRUE, TRUE)
  /\ UNCHANGED << propsV, canvas, manifestRef, framesRef, audioRef, currentFrameRef,
                  started, hsWait, clicks, isMounted, manifest, loadV, closeV,
                  onErrorCount, onEndCount >>

\* The Audio built by session s fires canplaythrough: the listener of setup()
\* resolves the wait and setup() calls audioRef.current.play().  Where the
\* browser refuses (autoplay policy) play() returns a rejected promise and
\* setup() is in its catch at once; otherwise the promise is pending, and will
\* be rejected if that Audio has failed to load.
CanPlayThrough(s, allowed) ==
  /\ pc[s] = "audioWait"
  /\ audio[s].rs = "loading"
  /\ LET ready == [audio EXCEPT ![s].rs = "ready"]
     IN IF allowed
          THEN /\ audio' = IF ready[audioRef].rs = "error" THEN ready
                                                           ELSE PlayCall(ready, audioRef)
               /\ pc' = [pc EXCEPT ![s] = IF ready[audioRef].rs = "error"
                                            THEN "playRejected" ELSE "playWait"]
               /\ playOn' = [playOn EXCEPT ![s] = audioRef]
               /\ UNCHANGED onErrorCount
          ELSE /\ audio' = ready
               /\ Catch(s)
               /\ UNCHANGED playOn
  /\ ev' = Ev("canplaythrough", s, <<>>, FALSE, TRUE)
  /\ UNCHANGED << propsV, canvas, manifestRef, framesRef, audioRef, clockV, uiV,
                  isMounted, manifest, loadV, closeV, onReadyCount,
                  onEndCount, lastDraw >>

\* The Audio built by session s fails to load: it fires error, for which
\* setup() registered no listener.
AudioError(s) ==
  /\ audio[s].rs = "loading"
  /\ audio' = [audio EXCEPT ![s].rs = "error"]
  /\ pc' = AbortSetupPlays(s)
  /\ hsWait' = AbortStartPlays(s)
  /\ ev' = Ev("audioError", s, <<>>, FALSE, FALSE)
  /\ UNCHANGED << propsV, canvas, manifestRef, framesRef, audioRef, clockV, started,
                  isReady, clicks, isMounted, manifest, loadV, playOn, closeV,
                  onReadyCount, onErrorCount, onEndCount, lastDraw >>

\* a play() promise on Audio a is pending
PlayPending(a) ==
  \/ \E t \in Sessions : pc[t] = "playWait" /\ playOn[t] = a
  \/ \E k \in DOMAIN hsWait : hsWait[k] = [a |-> a, st |-> "wait"]

\* Audio a plays to its end (the play() promises on it resolved before).
\* The program reads audio.ended only in the loop branch of tick.
AudioEnded(a) ==
  /\ loop
  /\ audio[a].rs = "ready" /\ ~audio[a].paused /\ ~audio[a].ended
  /\ ~PlayPending(a)
  /\ audio' = [audio EXCEPT ![a].ended = TRUE, ![a].paused = TRUE]
  /\ ev' = Ev("audioEnded", a, <<>>, FALSE, FALSE)
  /\ UNCHANGED << propsV, canvas, manifestRef, framesRef, audioRef, clockV, uiV,
                  isMounted, pc, manifest, loadV, playOn, closeV, onReadyCount,
                  onErrorCount, onEndCount, lastDraw >>

\* The play() promise setup() awaits resolves: step 5 of setup(),
\* startTimeRef.current = performance.now(); drawFrame(0);
\* rafRef.current = requestAnimationFrame(tick); setReady(true); onReady?.()
PlayResolves(s) ==
  /\ pc[s] = "playWait"
  /\ audio[playOn[s]].rs = "ready" /\ ~audio[playOn[s]].paused
  /\ LET h == FreshHandle(pending, rafRef)
     IN /\ elapsed' = 0
        /\ lastDraw' = <<0>>
        /\ pending' = Append(pending, h)
        /\ rafRef' = h
  /\ isReady' = TRUE
  /\ onReadyCount' = [onReadyCount EXCEPT ![s] = @ + 1]
  /\ pc' = [pc EXCEPT ![s] = "ready"]
  /\ ev' = Ev("playResolves", s, <<0>>, TRUE, FALSE)
  /\ UNCHANGED << propsV, canvas, manifestRef, framesRef, audioRef,
                  currentFrameRef, started, hsWait, clicks, isMounted,
                  manifest, loadV, playOn, audio, closeV, onErrorCount,
                  onEndCount >>

\* The play() promise setup() awaits rejects.
PlayRejects(s) ==
  /\ pc[s] = "playRejected"
  /\ Catch(s)
  /\ ev' = Ev("playRejects", s, <<>>, FALSE, FALSE)
  /\ UNCHANGED << propsV, canvas, manifestRef, framesRef, audioRef, clockV, uiV,
                  isMounted, manifest, loadV, playOn, audio, closeV,
                  onReadyCount, onEndCount, lastDraw >>

----------------------------------------------------------------------------
(* tick *)

\* (mutant) the index is not wrapped
WrapNone(k, len) == k

\* frameIdx % framesRef.current.length
Wrap(k, len) == IF len = 0 THEN NaN ELSE k % len

\* frameIdx !== currentFrameRef.current
Differs(k, cur) == k = NaN \/ cur = NaN \/ k # cur

\* The animation frame callback at the head of the queue runs.
Tick ==
  /\ pending # <<>>
  /\ LET rest == Tail(pending)
         len == Len(framesRef)
         k == FrameIdx(elapsed, EffectiveFps(manifestRef))
         idx == IF k >= len THEN Wrap(k, len) ELSE k
         rewind == k >= len /\ audioRef # 0 /\ audio[audioRef].ended
         h == FreshHandle(rest, rafRef)
     IN IF manifestRef = NoManifest
          THEN \* if (!manifest) return
               /\ pending' = rest
               /\ ev' = Ev("tick", 0, <<>>, FALSE, FALSE)
               /\ UNCHANGED << rafRef, currentFrameRef, audio, onEndCount, lastDraw >>
          ELSE IF k >= len /\ ~loop
            THEN \* drawFrame(length - 1); cancelAnimationFrame; onEnd?.(); return
                 /\ lastDraw' = <<len - 1>>
                 /\ pending' = CancelRaf(rest, rafRef)
                 /\ onEndCount' = onEndCount + 1
                 /\ ev' = Ev("tickEnd", 0, <<len - 1>>, FALSE, FALSE)
                 /\ UNCHANGED << rafRef, currentFrameRef, audio >>
            ELSE /\ audio' = IF rewind THEN PlayCall(Rewind(audio, audioRef), audioRef)
                                       ELSE audio
                 /\ IF Differs(idx, currentFrameRef)
                      THEN currentFrameRef' = idx /\ lastDraw' = <<idx>>
                      ELSE UNCHANGED <<currentFrameRef, lastDraw>>
                 /\ pending' = Append(rest, h)
                 /\ rafRef' = h
                 /\ ev' = Ev("tick", 0,
                             IF Differs(idx, currentFrameRef) THEN <<idx>> ELSE <<>>,
                             TRUE, rewind)
                 /\ UNCHANGED onEndCount
  /\ UNCHANGED << propsV, canvas, manifestRef, framesRef, audioRef, elapsed,
                  uiV, isMounted, pc, manifest, loadV, playOn, closeV,
                  onReadyCount, onErrorCount >>

----------------------------------------------------------------------------
(* handleStart *)

\* handleStart after its await: startTimeRef.current = performance.now();
\* rafRef.current = requestAnimationFrame(tick); setStarted(true)
StartPlayback ==
  LET h == FreshHandle(pending, rafRef)
  IN /\ elapsed' = 0
     /\ pending' = Append(pending, h)
     /\ rafRef' = h
     /\ started' = TRUE

\* The start button is clicked (it is rendered while the component is mounted
\* and started is false).  Without an Audio the await is of undefined and
\* handleStart continues at once; with one, it awaits play(), which the click
\* entitles it to, and which will be rejected if the Audio has failed to load.
HandleStart ==
  /\ \E s \in Sessions : isMounted[s]
  /\ ~started
  /\ clicks < MaxClicks
  /\ clicks' = clicks + 1
  /\ IF audioRef = 0
       THEN /\ StartPlayback
            /\ ev' = Ev("handleStart", 0, <<>>, TRUE, FALSE)
            /\ UNCHANGED <<audio, hsWait>>
       ELSE /\ audio' = IF audio[audioRef].rs = "error" THEN audio
                                                        ELSE PlayCall(audio, audioRef)
            /\ hsWait' = Append(hsWait, [a |-> audioRef,
                                         st |-> IF audio[audioRef].rs = "error"
                                                  THEN "rejected" ELSE "wait"])
            /\ ev' = Ev("handleStart", 0, <<>>, FALSE, TRUE)
            /\ UNCHANGED <<elapsed, pending, rafRef, started>>
  /\ UNCHANGED << propsV, canvas, manifestRef, framesRef, audioRef,
                  currentFrameRef, isReady, isMounted, pc, manifest, loadV,
                  playOn, closeV, onReadyCount, onErrorCount, onEndCount,
                  lastDraw >>

\* The play() promise handleStart call k awaits resolves.
HandleStartResumes(k) ==
  /\ k \in DOMAIN hsWait
  /\ hsWait[k].st = "wait"
  /\ audio[hsWait[k].a].rs = "ready" /\ ~audio[hsWait[k].a].paused
  /\ StartPlayback
  /\ hsWait' = RemoveAt(hsWait, k)
  /\ ev' = Ev("handleStartResumes", 0, <<>>, TRUE, FALSE)
  /\ UNCHANGED << propsV, canvas, manifestRef, framesRef, audioRef,
                  currentFrameRef, isReady, clicks, isMounted, pc, manifest,
                  loadV, playOn, audio, closeV, onReadyCount, onErrorCount,
                  onEndCount, lastDraw >>

\* The play() promise handleStart call k awaits rejects: console.error(err)
HandleStartRejects(k) ==
  /\ k \in DOMAIN hsWait
  /\ hsWait[k].st = "rejected"
  /\ hsWait' = RemoveAt(hsWait, k)
  /\ ev' = Ev("handleStartRejects", 0, <<>>, FALSE, FALSE)
  /\ UNCHANGED << propsV, canvas, manifestRef, framesRef, audioRef, clockV, started,
                  isReady, clicks, isMounted, pc, manifest, loadV, playOn,
                  audio, closeV, onReadyCount, onErrorCount, onEndCount,
                  lastDraw >>

----------------------------------------------------------------------------
(* The cleanup of the effect *)

\* the frames of framesRef.current that have a close() function
Releasable(frames) == {frames[k] : k \in {j \in DOMAIN frames : frames[j].rel}}

\* React runs the cleanup of session s, once: on unmount, or before the effect
\* runs again because a dependency changed.
Cleanup(s) ==
  /\ isMounted[s]
  /\ isMounted' = [isMounted EXCEPT ![s] = FALSE]
  /\ pending' = CancelRaf(pending, rafRef)
  /\ IF audioRef # 0
       THEN \* audioRef.current?.pause()
            /\ audio' = [audio EXCEPT ![audioRef].paused = TRUE]
            /\ pc' = AbortSetupPlays(audioRef)
            /\ hsWait' = AbortStartPlays(audioRef)
       ELSE UNCHANGED <<audio, pc, hsWait>>
  /\ closedTwice' = closedTwice \cup (Releasable(framesRef) \cap closedOnce)
  /\ closedOnce' = closedOnce \cup Releasable(framesRef)
  /\ framesRef' = <<>>
  /\ ev' = Ev("cleanup", s, <<>>, FALSE, FALSE)
  /\ UNCHANGED << propsV, canvas, manifestRef, audioRef, elapsed, rafRef,
                  currentFrameRef, started, isReady, clicks, manifest, loadV,
                  playOn, onReadyCount, onErrorCount, onEndCount, lastDraw >>

----------------------------------------------------------------------------
(* Spec: the component with all its operations *)

Next ==
  \/ \E s \in Sessions : Mount(s)
  \/ \E s \in Sessions, m \in Manifests : ManifestArrives(s, m)
  \/ \E s \in Sessions : ManifestFails(s)
  \/ \E s \in Sessions, w \in Workers : FetchDone(s, w)
  \/ \E s \in Sessions, w \in Workers : FetchFails(s, w)
  \/ \E s \in Sessions, allowed \in BOOLEAN : CanPlayThrough(s, allowed)
  \/ \E s \in Sessions : AudioError(s)
  \/ \E s \in Sessions : AudioEnded(s)
  \/ \E s \in Sessions : PlayResolves(s)
  \/ \E s \in Sessions : PlayRejects(s)
  \/ Advance
  \/ Tick
  \/ HandleStart
  \/ \E k \in 1..MaxClicks : HandleStartResumes(k)
  \/ \E k \in 1..MaxClicks : HandleStartRejects(k)
  \/ \E s \in Sessions : Cleanup(s)

Spec == Init /\ [][Next]_vars

\* a continuation of setup() of session s runs
SetupProgress(s) ==
  \/ \E m \in Manifests : ManifestArrives(s, m)
  \/ ManifestFails(s)
  \/ \E w \in Workers : FetchDone(s, w)
  \/ \E w \in Workers : FetchFails(s, w)
  \/ \E allowed \in BOOLEAN : CanPlayThrough(s, allowed)
  \/ PlayResolves(s)
  \/ PlayRejects(s)

----------------------------------------------------------------------------
(* SpecLoad: one individual-mode load, of up to MaxLoadFrames frames *)

InitLoad == InitWith({FALSE}, {0}, {TRUE}, {0})

NextLoad ==
  \/ Mount(1)
  \/ \E m \in LoadManifests : ManifestArrives(1, m)
  \/ \E w \in Workers : FetchDone(1, w)
  \/ \E w \in Workers : FetchFails(1, w)

SpecLoad == InitLoad /\ [][NextLoad]_vars

----------------------------------------------------------------------------
(* SpecZip: one zip-mode load *)

NextZip ==
  \/ Mount(1)
  \/ pc[1] = "manifest" /\ \E m \in ZipManifests : ManifestArrives(1, m)
  \/ ZipOpens(1)
  \/ ZipFails(1)
  \/ ZipEntryDecoded(1)
  \/ ZipEntryFails(1)

SpecZip == InitLoad /\ [][NextZip]_vars

----------------------------------------------------------------------------
(* SpecParams: the fps and canvas size options against those of the manifest *)

ParamManifests ==
  { [id |-> 1, basePath |-> "", frames |-> <<1, 2>>, fps |-> f, width |-> w,
     height |-> h, zip |-> NoZip] : f \in {0, 10}, w \in {0, 640}, h \in {0, 450} }

InitParams == InitWith(BOOLEAN, {0, 20}, {TRUE}, {0, 800})

NextParams ==
  \/ Mount(1)
  \/ \E m \in ParamManifests : ManifestArrives(1, m)
  \/ HandleStart
  \/ Advance
  \/ Tick

SpecParams == InitParams /\ [][NextParams]_vars

----------------------------------------------------------------------------
(* Properties of loadFrames, individual mode *)

\* loadFrames of session s has resolved: Promise.all resolves when every
\* worker() has returned
Resolved(s) ==
  /\ manifest[s] # NoManifest
  /\ \A w \in DOMAIN worker[s] : worker[s][w].st = "returned"

\* the fetches of session s issued and not yet completed
Outstanding(s) == {w \in DOMAIN worker[s] : worker[s][w].st = "fetching"}

\* C1: when loadFrames resolves, its result has one slot per entry of
\* Manifest.frames, and slot i holds the image decoded from the response to
\* the URL of Manifest.frames[i] (request i): no slot is empty and none holds
\* the image of another index, whatever the order the fetches completed in.
\* The resolved value is what setup() stores in framesRef.
C1_ResultsByIndex ==
  \A s \in Sessions :
    Resolved(s) =>
      LET m == manifest[s]
          n == Len(m.frames)
      IN /\ Len(results[s]) = n
         /\ \A i \in 0..(n - 1) :
              /\ At(results[s], i) # Hole
              /\ At(results[s], i).sess = s
              /\ At(results[s], i).req = i
              /\ At(results[s], i).src = Href(m.frames[i + 1], Base(m))
         /\ pc[s] = "audioWait" => framesRef = results[s]

\* A load of more frames than workers has resolved, and the last worker
\* fetched the last frame: its first fetch completed before the fetches of
\* lower indices.
C1_Witness ==
  /\ Resolved(1)
  /\ Len(manifest[1].frames) > MAX_CONCURRENT_REQUESTS
  /\ worker[1][MAX_CONCURRENT_REQUESTS].i = Len(manifest[1].frames) - 1

\* C2: at every moment of a load of N frames, at most min(8, N) fetches are
\* issued and not yet completed.
C2_BoundedOutstanding ==
  \A s \in Sessions :
    Cardinality(Outstanding(s)) <= Min(MAX_CONCURRENT_REQUESTS, Len(manifest[s].frames))

\* Every frame of a load of more than 8 frames is claimed, a fetch has
\* completed, and 8 fetches are outstanding.
C2_Witness ==
  /\ Len(manifest[1].frames) > MAX_CONCURRENT_REQUESTS
  /\ index[1] = Len(manifest[1].frames)
  /\ Cardinality(Outstanding(1)) = MAX_CONCURRENT_REQUESTS

----------------------------------------------------------------------------
(* Properties of setup(), tick and the cleanup *)

\* a frame fetch or decode of session s has failed
LoadFailed(s) == \E w \in DOMAIN worker[s] : worker[s][w].st = "rejected"

\* the frames session s has decoded so far
Decoded(s) == {results[s][k] : k \in {j \in DOMAIN results[s] : results[s][j] # Hole}}

\* the component has had no more than its first session
OneSession == \A t \in Sessions : t > 1 => pc[t] = "idle"

\* the operations that are continuations of setup()
SetupOps ==
  { "manifest", "manifestFails", "fetchDone", "fetchFails", "canplaythrough",
    "playResolves", "playRejects" }

\* C3: once a frame fetch or decode of a load has failed, setup() of that
\* session has stopped in its catch, however many other fetches succeed before
\* or after: framesRef never holds a frame of that load, no Audio is built,
\* and no task of that setup() records the start time, draws, requests an
\* animation frame, calls play() or fires onReady.
C3_FailedLoadAborts ==
  \A s \in Sessions :
    LoadFailed(s) =>
      /\ pc[s] = "failed"
      /\ \A k \in DOMAIN framesRef : framesRef[k].sess # s
      /\ audio[s] = NoAudio
      /\ audioRef # s
      /\ onReadyCount[s] = 0
      /\ (ev.sess = s /\ ev.op \in SetupOps) =>
           ev.draws = <<>> /\ ~ev.sched /\ ~ev.play /\ ev.op # "playResolves"

\* One of the two fetches of a load failed and the other one succeeded, in a
\* mounted session: the failure was delivered to onError.
C3_Witness ==
  /\ isMounted[1]
  /\ Len(worker[1]) = 2
  /\ worker[1][1].st = "rejected"
  /\ worker[1][2].st = "returned"
  /\ Decoded(1) # {}
  /\ onErrorCount[1] = 1

\* C4 (as claimed): with loop = false, every index tick passes to drawFrame is
\* greater than the index passed before it, the end of the clip included.
\* Stated for a component with one session and no click on the start button.
C4_StrictlyIncreasingDraws ==
  [][ ( /\ ~loop /\ OneSession /\ clicks = 0
        /\ ev'.op \in {"tick", "tickEnd"}
        /\ ev'.draws # <<>>
        /\ lastDraw # <<>> )
      => ev'.draws[1] > lastDraw[1] ]_vars

\* C5 (as claimed): with loop = false, the tick that finds floor(t * fps) >= N
\* for the N >= 1 frames of framesRef passes N-1 to drawFrame, signals onEnd
\* for the only time, and leaves no animation frame callback pending; from
\* then on no step draws, requests an animation frame or runs a tick.
\* Stated for a component with one session.
C5_EndsOnce ==
  [][ ( ~loop /\ OneSession /\ Len(framesRef) >= 1 )
      => /\ ev'.op = "tickEnd"
            => /\ onEndCount' = 1
               /\ lastDraw' = <<Len(framesRef) - 1>>
               /\ pending' = <<>>
         /\ onEndCount >= 1
            => /\ ev'.draws = <<>>
               /\ ~ev'.sched
               /\ ev'.op \notin {"tick", "tickEnd"} ]_vars

\* C6 (as claimed): after a tick that ran at elapsed time t with the frames
\* loaded, k = floor(t * fps), the last index passed to drawFrame is k when
\* k < N, and k mod N when k >= N and loop = true.
C6_IndexFromElapsed ==
  (ev.op = "tick" /\ manifestRef # NoManifest /\ Len(framesRef) >= 1) =>
    LET n == Len(framesRef)
        k == FrameIdx(elapsed, EffectiveFps(manifestRef))
    IN /\ k < n => lastDraw = <<k>>
       /\ (k >= n /\ loop) => lastDraw = <<k % n>>

\* C7: with loop = true, every tick that runs with the manifest loaded
\* requests the next animation frame and leaves its handle in rafRef, and
\* does not signal onEnd; with N >= 1 frames in framesRef the index it passes
\* to drawFrame lies in 0..N-1 (with none, the index is NaN and drawFrame
\* finds no frame to draw); and when floor(t * fps) >= N and the Audio of
\* audioRef has ended, the tick rewinds that Audio and plays it again.
C7_LoopNeverEnds ==
  [][ ( /\ loop
        /\ ev'.op \in {"tick", "tickEnd"}
        /\ manifestRef # NoManifest )
      => /\ ev'.op = "tick"
         /\ ev'.sched
         /\ pending' # <<>>
         /\ pending'[Len(pending')] = rafRef'
         /\ \A j \in Range(ev'.draws) :
              IF Len(framesRef) >= 1 THEN j \in 0..(Len(framesRef) - 1)
                                     ELSE j = NaN
         /\ onEndCount' = 0
         /\ ( /\ FrameIdx(elapsed, EffectiveFps(manifestRef)) >= Len(framesRef)
              /\ audioRef # 0
              /\ audio[audioRef].ended )
            => /\ ev'.play
               /\ ~audio'[audioRef].ended
               /\ ~audio'[audioRef].paused ]_vars

\* With loop = true a tick ran past the end of the clip while the Audio had
\* ended: it wrapped the index, drew it and restarted the Audio.
C7_Witness ==
  /\ loop
  /\ ev.op = "tick"
  /\ ev.play
  /\ ev.draws # <<>>
  /\ Len(framesRef) >= 1
  /\ FrameIdx(elapsed, EffectiveFps(manifestRef)) >= Len(framesRef)

\* C8 (as claimed): when the cleanup of session s has run, close() has been
\* called exactly once on every releasable frame the session decoded, on no
\* frame twice, and framesRef is empty.
C8_TeardownReleasesAll ==
  \A s \in Sessions :
    (ev.op = "cleanup" /\ ev.sess = s) =>
      /\ \A f \in Decoded(s) : f.rel => f \in closedOnce
      /\ closedTwice = {}
      /\ framesRef = <<>>

\* C9 (as claimed): after the cleanup of session s, no task of its setup()
\* draws, requests an animation frame, calls play() or fires onReady.
C9_NothingAfterTeardown ==
  \A s \in Sessions :
    (~isMounted[s] /\ ev.sess = s /\ ev.op \in SetupOps) =>
      ev.draws = <<>> /\ ~ev.sched /\ ~ev.play /\ ev.op # "playResolves"

\* C10 (as claimed): a setup() that is not torn down and has neither signalled
\* readiness nor delivered its failure can still take a step.
C10_SetupTerminates ==
  \A s \in Sessions :
    (isMounted[s] /\ pc[s] \notin {"ready", "failed"}) => ENABLED SetupProgress(s)

----------------------------------------------------------------------------
(* Properties of the order of setup(), of the frame store and of scheduling *)

\* C11: in session s the stages of setup() complete in order and onReady
\* fires at most once, after all of them.  setup() waits for its frames only
\* with the manifest stored; it builds the Audio and waits for it only when
\* every worker has returned and framesRef holds the N decoded frames of its
\* manifest; it calls play() only when its Audio has fired canplaythrough;
\* and the one task that fires onReady runs when that play() has started the
\* Audio, and it records the start time, passes 0 to drawFrame and requests
\* the first animation frame.
C11_ReadyAfterStagesInOrder ==
  [][ \A s \in Sessions :
        /\ (pc'[s] = "frames" /\ pc[s] # "frames")
             => /\ pc[s] = "manifest"
                /\ manifest'[s] # NoManifest
                /\ manifestRef' = manifest'[s]
        /\ (pc'[s] = "audioWait" /\ pc[s] # "audioWait")
             => /\ pc[s] \in {"manifest", "frames"}
                /\ manifest'[s] # NoManifest
                /\ \A w \in DOMAIN worker'[s] : worker'[s][w].st = "returned"
                /\ Len(framesRef') = Len(manifest'[s].frames)
                /\ \A k \in DOMAIN framesRef' :
                     framesRef'[k] = createBitmap(s, k - 1, Queue(manifest'[s])[k])
                /\ audio'[s] = NewAudio
        /\ (pc'[s] = "playWait" /\ pc[s] # "playWait")
             => /\ pc[s] = "audioWait"
                /\ audio'[s].rs = "ready"
                /\ ev'.play
        /\ onReadyCount'[s] # onReadyCount[s]
             => /\ onReadyCount[s] = 0 /\ onReadyCount'[s] = 1
                /\ pc[s] = "playWait" /\ pc'[s] = "ready"
                /\ audio[s].rs = "ready"
                /\ audio[playOn[s]].rs = "ready" /\ ~audio[playOn[s]].paused
                /\ elapsed' = 0
                /\ ev'.draws = <<0>>
                /\ ev'.sched /\ rafRef' \in Range(pending') ]_vars

\* Session 1, mounted, loaded its two frames, started its Audio and fired
\* onReady.
C11_Witness ==
  /\ ev = Ev("playResolves", 1, <<0>>, TRUE, FALSE)
  /\ isMounted[1]
  /\ onReadyCount[1] = 1
  /\ Len(framesRef) = 2

\* the names the archive of manifest m has entries for
ZipNames(m) == Range(m.zip.entries)

\* C12: in a zip-mode load, once loadFrames has returned (setup() is past its
\* frames stage) the archive has an entry for every name of Manifest.frames
\* and framesRef holds N bitmaps, the i-th decoded from the entry whose name
\* is Manifest.frames[i], whatever the order of the entries and whatever
\* other entries there are; and while a declared name is absent from the
\* archive the load never returns: it is still before that name, or it has
\* failed, and it has decoded only frames that precede the absent name.
C12_ZipOrderAndMissing ==
  \A s \in Sessions :
    manifest[s].zip.url # "" =>
      LET m == manifest[s]
          n == Len(m.frames)
      IN /\ pc[s] \in {"audioWait", "playWait", "playRejected", "ready"} =>
              /\ Range(m.frames) \subseteq ZipNames(m)
              /\ Len(framesRef) = n
              /\ \A i \in 0..(n - 1) :
                   /\ At(framesRef, i).req = i
                   /\ At(framesRef, i).src[1] = m.zip.url
                   /\ At(framesRef, i).src[2] \in DOMAIN m.zip.entries
                   /\ m.zip.entries[At(framesRef, i).src[2]] = m.frames[i + 1]
         /\ ~(Range(m.frames) \subseteq ZipNames(m)) =>
              /\ pc[s] \in {"zip", "zipEntry", "failed"}
              /\ framesRef = <<>>
              /\ \A k \in DOMAIN results[s] : m.frames[k] \in ZipNames(m)
              /\ (pc[s] = "zipEntry" => m.frames[index[s] + 1] \in ZipNames(m))

\* A load returned three frames, one name twice, from an archive whose
\* entries are in another order than the frames and include one no frame
\* names.
C12_Witness ==
  /\ pc[1] = "audioWait"
  /\ manifest[1].frames = <<2, 1, 2>>
  /\ manifest[1].zip.entries = <<3, 1, 2>>
  /\ Len(framesRef) = 3

\* A load failed at a name the archive lacks, after decoding the frame before
\* it.
C12_WitnessMissing ==
  /\ pc[1] = "failed"
  /\ manifest[1].frames = <<2, 3>>
  /\ manifest[1].zip.entries = <<1, 2>>
  /\ Len(results[1]) = 1
  /\ onErrorCount[1] = 1

\* the option if given, else the manifest's value, else the default
Precedence(option, fromManifest, default) ==
  IF option # 0 THEN option ELSE IF fromManifest # 0 THEN fromManifest ELSE default

\* C13 (as claimed): once setup() of a mounted session has the manifest and
\* has gone on to fetch frames, the canvas has the effective size: the width
\* is canvasWidth, else the manifest's, else 1280; the height is the
\* manifest's, else width * 9 / 16; and the fps tick uses is the fps option,
\* else the manifest's, else 25.
C13_EffectiveParameters ==
  \A s \in Sessions :
    (isMounted[s] /\ manifest[s] # NoManifest) =>
      LET m == manifest[s]
          w == Precedence(canvasWidth, m.width, DefaultWidth)
      IN /\ EffectiveFps(m) = Precedence(fpsProp, m.fps, DefaultFps)
         /\ canvas = <<w, IF m.height # 0 THEN m.height ELSE (w * AspectH) \div AspectW>>

\* the same, for a canvas that is rendered when the manifest arrives
C13_SizedWhenCanvasMounted ==
  [][ \A s \in Sessions :
        (CanvasMounted /\ isMounted[s] /\ manifest[s] = NoManifest
           /\ manifest'[s] # NoManifest)
        => LET m == manifest'[s]
               w == Precedence(canvasWidth, m.width, DefaultWidth)
           IN /\ EffectiveFps(m) = Precedence(fpsProp, m.fps, DefaultFps)
              /\ canvas' = <<w, IF m.height # 0 THEN m.height
                                                ELSE (w * AspectH) \div AspectW>> ]_vars

\* C14 (as claimed): no task of the setup() of a session that was torn down
\* changes framesRef: the frames of a load that completes after the teardown
\* are not stored.
C14_LateFramesDiscarded ==
  [][ \A s \in Sessions :
        (~isMounted[s] /\ ev'.sess = s /\ ev'.op \in SetupOps)
        => framesRef' = framesRef ]_vars

\* the tasks that start playback: they record the start time and request
\* the first animation frame
StartOps == {"playResolves", "handleStart", "handleStartResumes"}

\* C15 (as claimed): a task of setup() or of handleStart records the start
\* time and requests an animation frame only when the manifest is loaded,
\* framesRef holds as many frames as the manifest names, and the Audio of
\* audioRef has reported that it can play through.
C15_StartOnlyWhenLoaded ==
  [][ (ev'.op \in StartOps /\ ev'.sched)
      => /\ manifestRef # NoManifest
         /\ Len(framesRef) = Len(manifestRef.frames)
         /\ audioRef # 0
         /\ audio[audioRef].rs = "ready" ]_vars

\* C16 (as claimed): a tick that runs with a manifest in manifestRef finds in
\* framesRef exactly the frames of that manifest: as many as it names, the
\* i-th decoded from the URL of its i-th name.
C16_StoreMatchesManifest ==
  [][ (ev'.op \in {"tick", "tickEnd"} /\ manifestRef # NoManifest)
      => /\ Len(framesRef) = Len(manifestRef.frames)
         /\ \A i \in 0..(Len(framesRef) - 1) :
              /\ At(framesRef, i).req = i
              /\ At(framesRef, i).src = Queue(manifestRef)[i + 1] ]_vars

\* the workers of session s whose fetch of queue entry i is outstanding
Fetching(s, i) == {w \in Outstanding(s) : worker[s][w].i = i}

\* C17: in an individual-mode load of N frames the fetches issued so far are
\* one for each of the indices 0..index-1 and none for any other: no index is
\* fetched twice and none is skipped; an index is being fetched by at most
\* one worker, and only before its slot is filled; and when the load resolves
\* exactly N fetches have been issued, one for each index.
C17_EachIndexClaimedOnce ==
  \A s \in Sessions :
    (manifest[s] # NoManifest /\ manifest[s].zip.url = "") =>
      LET n == Len(manifest[s].frames)
      IN /\ index[s] <= n
         /\ Len(issued[s]) = n
         /\ \A i \in 0..(n - 1) :
              /\ At(issued[s], i) = IF i < index[s] THEN 1 ELSE 0
              /\ Cardinality(Fetching(s, i)) <= 1
              /\ Fetching(s, i) # {} => At(results[s], i) = Hole
              /\ At(results[s], i) # Hole => i < index[s]
         /\ Resolved(s) => index[s] = n

\* A load of more frames than workers resolved, and the first worker fetched
\* the last index after its own.
C17_Witness ==
  /\ Resolved(1)
  /\ Len(manifest[1].frames) = MAX_CONCURRENT_REQUESTS + 1
  /\ worker[1][1].i = MAX_CONCURRENT_REQUESTS
  /\ \A k \in DOMAIN issued[1] : issued[1][k] = 1

\* C18 (as claimed): when the cleanup of session s has run after its setup()
\* failed, close() has been called on every releasable frame the session had
\* decoded.
C18_TeardownAfterFailureReleases ==
  \A s \in Sessions :
    (ev.op = "cleanup" /\ ev.sess = s /\ pc[s] = "failed") =>
      \A f \in Decoded(s) : f.rel => f \in closedOnce

\* C19 (as claimed): at most one animation frame callback is pending; when
\* one is, rafRef holds its handle; and when the cleanup has run none is.
C19_OnePendingTick ==
  /\ Len(pending) <= 1
  /\ pending # <<>> => pending[1] = rafRef
  /\ ev.op = "cleanup" => pending = <<>>

====
